---- MODULE Spec2Model ----
(***************************************************************************)
(* API Playground: the request builder (RequestBuilder), the application   *)
(* state and its handlers (App: buildUrl, buildHeaders, sendRequest,       *)
(* handleSelectRequest, handleNewRequest) as a state machine.              *)
(*                                                                         *)
(* JavaScript strings are sequences of characters, each character a        *)
(* one-element token ("h", "?", ...); "U+03BB" stands for the single       *)
(* character GREEK SMALL LETTER LAMDA (outside Latin-1, two UTF-8 bytes).   *)
(* A JavaScript object used as a string map (Record<string,string>) is the *)
(* sequence of its <<key, value>> entries in property order.               *)
(* A value that may be null is None (<<>>) or Some(v) (<<v>>).             *)
(***************************************************************************)
EXTENDS Integers, Sequences, FiniteSets, TLC

VARIABLES
    config,            \* App state: RequestConfig
    response,          \* App state: ApiResponse | null
    isSending,         \* App state
    currentRequestId,  \* App state: string | null
    pc,                \* where the one execution of sendRequest stands
    send,              \* the locals of that execution (its closure)
    now,               \* Date.now()
    net,               \* the requests handed to fetch, in order
    history,           \* the records handed to request_history.insert, in order
    escaped,           \* an exception left sendRequest
    op,                \* the handler or continuation that ran last
    arg,               \* its argument, when it has one
    saves,             \* the executions of handleSaveRequest that await the store
    store,             \* the rows of saved_requests, by id
    stale              \* New Request or a load ran since the execution of
                       \* sendRequest in flight was dispatched

vars == <<config, response, isSending, currentRequestId, pc, send, now, net,
          history, escaped, op, arg, saves, store, stale>>

----------------------------------------------------------------------------
(* Bounds of the model *)

MaxPairs == 2

MaxTime == 1

MaxSaves == 2

MaxSends == 2

----------------------------------------------------------------------------
(* Values *)

None == <<>>

Some(v) == <<v>>

RECURSIVE Concat(_)
Concat(ss) == IF ss = <<>> THEN <<>> ELSE Head(ss) \o Concat(Tail(ss))

Includes(s, c) == \E i \in 1..Len(s) : s[i] = c

Digits == <<"0", "1", "2", "3", "4", "5", "6", "7", "8", "9">>

DigitValue(c) == (CHOOSE i \in 1..Len(Digits) : Digits[i] = c) - 1

IsDigit(c) == \E i \in 1..Len(Digits) : Digits[i] = c

RECURSIVE NumericValue(_)
NumericValue(s) ==
    IF s = <<>> THEN 0
    ELSE 10 * NumericValue(SubSeq(s, 1, Len(s) - 1)) + DigitValue(s[Len(s)])

\* An integer-like property name ("0", "7", "12"; not "", "01", "a1"):
\* such names come first in an object's property order, ascending.
IsArrayIndex(k) ==
    /\ Len(k) \in 1..9
    /\ \A i \in 1..Len(k) : IsDigit(k[i])
    /\ (Len(k) > 1 => k[1] # "0")

HasKey(obj, k) == \E i \in 1..Len(obj) : obj[i][1] = k

Get(obj, k) == obj[CHOOSE i \in 1..Len(obj) : obj[i][1] = k][2]

Keys(obj) == [i \in 1..Len(obj) |-> obj[i][1]]

\* The entries of obj that stay in front of a new property k.
InFront(obj, k) ==
    IF IsArrayIndex(k)
    THEN Cardinality({i \in 1..Len(obj) :
            IsArrayIndex(obj[i][1]) /\ NumericValue(obj[i][1]) < NumericValue(k)})
    ELSE Len(obj)

\* obj[k] = v
ObjSet(obj, k, v) ==
    IF HasKey(obj, k)
    THEN [i \in 1..Len(obj) |-> IF obj[i][1] = k THEN <<k, v>> ELSE obj[i]]
    ELSE SubSeq(obj, 1, InFront(obj, k)) \o <<<<k, v>>>>
            \o SubSeq(obj, InFront(obj, k) + 1, Len(obj))

RECURSIVE FromEntries(_)
FromEntries(entries) ==
    IF entries = <<>> THEN <<>>
    ELSE LET e == entries[Len(entries)]
         IN  ObjSet(FromEntries(SubSeq(entries, 1, Len(entries) - 1)), e[1], e[2])

\* p.enabled && p.key
Enabled(p) == p.enabled /\ p.key # <<>>

\* pairs.filter(p => p.enabled && p.key)
RECURSIVE FilterEnabled(_)
FilterEnabled(pairs) ==
    IF pairs = <<>> THEN <<>>
    ELSE (IF Enabled(Head(pairs)) THEN <<Head(pairs)>> ELSE <<>>)
            \o FilterEnabled(Tail(pairs))

\* FlatMapping without the filter
FlatMappingOfAll(pairs) ==
    FromEntries([i \in 1..Len(pairs) |-> <<pairs[i].key, pairs[i].value>>])

\* Object.fromEntries(pairs.filter(p => p.enabled && p.key).map(p => [p.key, p.value]))
FlatMapping(pairs) ==
    LET kept == FilterEnabled(pairs)
    IN  FromEntries([i \in 1..Len(kept) |-> <<kept[i].key, kept[i].value>>])

----------------------------------------------------------------------------
(* encodeURIComponent, btoa, Blob size *)

Unreserved == {"h", "q", "a", "b", "u", "p", "v", "x", "o", "k", "-", "_", "."}
                 \cup {Digits[i] : i \in 1..Len(Digits)}

LoneSurrogate == "U+D800"

Lambda == "U+03BB"

EncodeChar(c) ==
    CASE c \in Unreserved -> <<c>>
      [] c = "?" -> <<"%", "3", "F">>
      [] c = "&" -> <<"%", "2", "6">>
      [] c = "=" -> <<"%", "3", "D">>
      [] c = ":" -> <<"%", "3", "A">>
      [] c = " " -> <<"%", "2", "0">>
      [] c = Lambda -> <<"%", "C", "E", "%", "B", "B">>

encodeURIComponent(s) == Concat([i \in 1..Len(s) |-> EncodeChar(s[i])])

\* encodeURIComponent throws URIError on a lone surrogate.
EncodeThrows(s) == Includes(s, LoneSurrogate)

CharCode(c) ==
    CASE c = "u" -> 117 [] c = "p" -> 112 [] c = ":" -> 58 [] c = "a" -> 97
      [] c = "b" -> 98 [] c = "h" -> 104 [] c = "q" -> 113 [] c = "v" -> 118
      [] c = "x" -> 120 [] c = "o" -> 111 [] c = "k" -> 107 [] c = "?" -> 63
      [] c = "&" -> 38 [] c = "=" -> 61 [] c = " " -> 32 [] c = "-" -> 45
      [] c = "_" -> 95 [] c = "." -> 46
      [] IsDigit(c) -> 48 + DigitValue(c)
      [] c = Lambda -> 955
      [] c = LoneSurrogate -> 55296

Base64Alphabet ==
    <<"A", "B", "C", "D", "E", "F", "G", "H", "I", "J", "K", "L", "M",
      "N", "O", "P", "Q", "R", "S", "T", "U", "V", "W", "X", "Y", "Z",
      "a", "b", "c", "d", "e", "f", "g", "h", "i", "j", "k", "l", "m",
      "n", "o", "p", "q", "r", "s", "t", "u", "v", "w", "x", "y", "z",
      "0", "1", "2", "3", "4", "5", "6", "7", "8", "9", "+", "/">>

\* btoa throws InvalidCharacterError on a character outside Latin-1.
BtoaThrows(s) == \E i \in 1..Len(s) : CharCode(s[i]) > 255

RECURSIVE btoa(_)
btoa(s) ==
    IF s = <<>> THEN <<>>
    ELSE LET b1 == CharCode(s[1])
             b2 == IF Len(s) >= 2 THEN CharCode(s[2]) ELSE 0
             b3 == IF Len(s) >= 3 THEN CharCode(s[3]) ELSE 0
             n  == b1 * 65536 + b2 * 256 + b3
         IN  << Base64Alphabet[(n \div 262144) + 1],
                Base64Alphabet[((n \div 4096) % 64) + 1],
                IF Len(s) >= 2 THEN Base64Alphabet[((n \div 64) % 64) + 1] ELSE "=",
                IF Len(s) >= 3 THEN Base64Alphabet[(n % 64) + 1] ELSE "=" >>
             \o btoa(SubSeq(s, 4, Len(s)))

Utf8Bytes(c) ==
    IF CharCode(c) < 128 THEN 1 ELSE IF CharCode(c) < 2048 THEN 2 ELSE 3

\* new Blob([body]).size
RECURSIVE BlobSize(_)
BlobSize(s) == IF s = <<>> THEN 0 ELSE Utf8Bytes(Head(s)) + BlobSize(Tail(s))

----------------------------------------------------------------------------
(* Strings of the program *)

Authorization == <<"A", "u", "t", "h", "o", "r", "i", "z", "a", "t", "i", "o", "n">>

ContentType == <<"C", "o", "n", "t", "e", "n", "t", "-", "T", "y", "p", "e">>

BearerPrefix == <<"B", "e", "a", "r", "e", "r", " ">>

BasicPrefix == <<"B", "a", "s", "i", "c", " ">>

ApplicationJson ==
    <<"a", "p", "p", "l", "i", "c", "a", "t", "i", "o", "n", "/", "j", "s", "o", "n">>

ApplicationXml ==
    <<"a", "p", "p", "l", "i", "c", "a", "t", "i", "o", "n", "/", "x", "m", "l">>

ApplicationForm ==
    <<"a", "p", "p", "l", "i", "c", "a", "t", "i", "o", "n", "/", "x", "-", "w", "w", "w",
      "-", "f", "o", "r", "m", "-", "u", "r", "l", "e", "n", "c", "o", "d", "e", "d">>

AnErrorOccurred ==
    <<"A", "n", " ", "e", "r", "r", "o", "r", " ", "o", "c", "c", "u", "r", "r", "e", "d">>

httpMethods == <<"GET", "POST", "PUT", "PATCH", "DELETE", "OPTIONS", "HEAD">>

BodyTypes == <<"none", "json", "xml", "form", "raw">>

AuthTypes == <<"none", "bearer", "apikey", "basic">>

Range(s) == {s[i] : i \in 1..Len(s)}

\* useState<RequestConfig>({...}) and the config of handleNewRequest
InitialConfig ==
    [ method |-> "GET", url |-> <<>>, headers |-> <<>>, queryParams |-> <<>>,
      body |-> [type |-> "none", content |-> <<>>],
      auth |-> [type |-> "none"] ]

\* config.auth.<field> is a non-empty string
Truthy(auth, f) == f \in DOMAIN auth /\ auth[f] # <<>>

\* { ...obj, [f]: v }
Spread(obj, f, v) == [g \in DOMAIN obj \cup {f} |-> IF g = f THEN v ELSE obj[g]]

----------------------------------------------------------------------------
(* RequestAssembler: buildUrl and buildHeaders *)

\* `${encodeURIComponent(p.key)}=${encodeURIComponent(p.value)}`
QueryPair(p) == encodeURIComponent(p.key) \o <<"=">> \o encodeURIComponent(p.value)

\* parts.join('&')
RECURSIVE JoinAmp(_)
JoinAmp(parts) ==
    IF parts = <<>> THEN <<>>
    ELSE IF Len(parts) = 1 THEN parts[1]
    ELSE parts[1] \o <<"&">> \o JoinAmp(Tail(parts))

\* buildUrl without the test for a '?' in the URL
buildUrlQuestionMark(cfg) ==
    LET enabledParams == FilterEnabled(cfg.queryParams)
        queryString == JoinAmp([i \in 1..Len(enabledParams) |-> QueryPair(enabledParams[i])])
    IN  IF Len(enabledParams) = 0 THEN cfg.url
        ELSE cfg.url \o <<"?">> \o queryString

buildUrl(cfg) ==
    LET enabledParams == FilterEnabled(cfg.queryParams)
        queryString == JoinAmp([i \in 1..Len(enabledParams) |-> QueryPair(enabledParams[i])])
    IN  IF Len(enabledParams) = 0 THEN cfg.url
        ELSE IF Includes(cfg.url, "?") THEN cfg.url \o <<"&">> \o queryString
        ELSE cfg.url \o <<"?">> \o queryString

\* buildUrl throws when encodeURIComponent does.
buildUrlThrows(cfg) ==
    \E p \in Range(FilterEnabled(cfg.queryParams)) : EncodeThrows(p.key) \/ EncodeThrows(p.value)

\* config.headers.filter(h => h.enabled && h.key).forEach(h => { headers[h.key] = h.value })
RECURSIVE UserHeaders(_, _)
UserHeaders(headers, pairs) ==
    IF pairs = <<>> THEN headers
    ELSE UserHeaders(IF Enabled(Head(pairs))
                     THEN ObjSet(headers, Head(pairs).key, Head(pairs).value)
                     ELSE headers,
                     Tail(pairs))

AuthHeaders(headers, auth) ==
    IF auth.type = "bearer" /\ Truthy(auth, "token")
      THEN ObjSet(headers, Authorization, BearerPrefix \o auth.token)
    ELSE IF auth.type = "apikey" /\ Truthy(auth, "key") /\ Truthy(auth, "value")
      THEN ObjSet(headers, auth.key, auth.value)
    ELSE IF auth.type = "basic" /\ Truthy(auth, "username") /\ Truthy(auth, "password")
      THEN ObjSet(headers, Authorization,
                  BasicPrefix \o btoa(auth.username \o <<":">> \o auth.password))
    ELSE headers

BodyHeaders(headers, body) ==
    IF body.type = "json" /\ body.content # <<>>
      THEN ObjSet(headers, ContentType, ApplicationJson)
    ELSE IF body.type = "xml" /\ body.content # <<>>
      THEN ObjSet(headers, ContentType, ApplicationXml)
    ELSE IF body.type = "form" /\ body.content # <<>>
      THEN ObjSet(headers, ContentType, ApplicationForm)
    ELSE headers

\* buildHeaders with the body step first
buildHeadersBodyFirst(cfg) ==
    AuthHeaders(UserHeaders(BodyHeaders(<<>>, cfg.body), cfg.headers), cfg.auth)

buildHeaders(cfg) ==
    BodyHeaders(AuthHeaders(UserHeaders(<<>>, cfg.headers), cfg.auth), cfg.body)

\* buildHeaders throws when btoa does.
buildHeadersThrows(cfg) ==
    /\ cfg.auth.type = "basic" /\ Truthy(cfg.auth, "username") /\ Truthy(cfg.auth, "password")
    /\ BtoaThrows(cfg.auth.username \o <<":">> \o cfg.auth.password)

\* AttachesBody without the HEAD test
AttachesBodyUnlessGet(cfg) ==
    /\ cfg.body.type # "none"
    /\ cfg.body.content # <<>>
    /\ cfg.method # "GET"

\* AttachesBody for POST alone
AttachesBodyOnPost(cfg) ==
    /\ cfg.body.type # "none"
    /\ cfg.body.content # <<>>
    /\ cfg.method = "POST"

\* the condition under which sendRequest sets options.body
AttachesBody(cfg) ==
    /\ cfg.body.type # "none"
    /\ cfg.body.content # <<>>
    /\ cfg.method # "GET"
    /\ cfg.method # "HEAD"

\* the RequestInit handed to fetch
RequestOptions(cfg) ==
    [ method |-> cfg.method,
      headers |-> buildHeaders(cfg),
      body |-> IF AttachesBody(cfg) THEN Some(cfg.body.content) ELSE None ]

----------------------------------------------------------------------------
(* RequestExecutor: sendRequest *)

\* ErrorResponse with the time taken from the clock alone
ErrorResponseSinceEpoch(error, startTime, t) ==
    [ status |-> 0,
      statusText |-> "Network Error",
      headers |-> <<>>,
      body |-> IF error.isError THEN error.message ELSE AnErrorOccurred,
      time |-> t,
      size |-> 0 ]

\* the object set by the catch block
ErrorResponse(error, startTime, t) ==
    [ status |-> 0,
      statusText |-> "Network Error",
      headers |-> <<>>,
      body |-> IF error.isError THEN error.message ELSE AnErrorOccurred,
      time |-> t - startTime,
      size |-> 0 ]

\* fetchResponse.headers.forEach((value, key) => { responseHeaders[key] = value })
CollectHeaders(entries) == FromEntries(entries)

\* const apiResponse: ApiResponse = {...}
ApiResponse(fetchResponse, responseHeaders, responseBody, responseTime) ==
    [ status |-> fetchResponse.status,
      statusText |-> fetchResponse.statusText,
      headers |-> responseHeaders,
      body |-> responseBody,
      time |-> responseTime,
      size |-> BlobSize(responseBody) ]

\* HistoryRecord with the size counted in characters
HistoryRecordCharSize(cfg, fetchResponse, apiResponse) ==
    [ method |-> cfg.method,
      url |-> cfg.url,
      headers |-> FlatMapping(cfg.headers),
      query_params |-> FlatMapping(cfg.queryParams),
      body |-> cfg.body,
      auth |-> cfg.auth,
      response_status |-> fetchResponse.status,
      response_time |-> apiResponse.time,
      response_size |-> Len(apiResponse.body),
      response_headers |-> apiResponse.headers,
      response_body |-> apiResponse.body ]

\* the record handed to supabase.from('request_history').insert
HistoryRecord(cfg, fetchResponse, apiResponse) ==
    [ method |-> cfg.method,
      url |-> cfg.url,
      headers |-> FlatMapping(cfg.headers),
      query_params |-> FlatMapping(cfg.queryParams),
      body |-> cfg.body,
      auth |-> cfg.auth,
      response_status |-> fetchResponse.status,
      response_time |-> apiResponse.time,
      response_size |-> apiResponse.size,
      response_headers |-> apiResponse.headers,
      response_body |-> apiResponse.body ]

\* the locals of an execution that has not reached them yet
NoLocals ==
    [ config |-> InitialConfig, startTime |-> 0, fetchResponse |-> None,
      responseTime |-> 0, responseHeaders |-> <<>>, apiResponse |-> None ]

\* SendDisabled without the isSending test
SendDisabledByUrlOnly == config.url = <<>>

\* the Send button: disabled={isSending || !config.url}
SendDisabled == isSending \/ config.url = <<>>

\* catch (error) {...} finally {...}: the execution ends here
Catch(error) ==
    /\ response' = Some(ErrorResponse(error, send.startTime, now))
    /\ isSending' = FALSE
    /\ pc' = "idle"
    /\ escaped' = escaped
    /\ stale' = FALSE

\* finally { setIsSending(false) } after the try block ran through
Finally ==
    /\ isSending' = FALSE
    /\ pc' = "idle"
    /\ escaped' = escaped
    /\ stale' = FALSE

URIError == [isError |-> TRUE, message |-> <<"U", "R", "I">>]

InvalidCharacterError == [isError |-> TRUE, message |-> <<"b", "t", "o", "a">>]

\* what buildUrl or buildHeaders throws for cfg
AssemblyError(cfg) == IF buildUrlThrows(cfg) THEN URIError ELSE InvalidCharacterError

\* sendRequest without its test of the URL
RejectsNoUrl(url) == FALSE

\* if (!config.url) return
RejectsUrl(url) == url = <<>>

\* sendRequest, up to its first await
sendRequest ==
    /\ op' = "sendRequest"
    /\ arg' = None
    /\ UNCHANGED <<config, currentRequestId, now, history, saves, store>>
    /\ IF RejectsUrl(config.url)
       THEN UNCHANGED <<response, isSending, pc, send, net, escaped, stale>>
       ELSE /\ send' = [NoLocals EXCEPT !.config = config, !.startTime = now]
            /\ stale' = FALSE
            /\ IF buildUrlThrows(config) \/ buildHeadersThrows(config)
               THEN /\ response' = Some(ErrorResponse(AssemblyError(config), now, now))
                    /\ isSending' = FALSE
                    /\ pc' = "idle"
                    /\ escaped' = escaped
                    /\ net' = net
               ELSE /\ isSending' = TRUE
                    /\ pc' = "fetch"
                    /\ net' = Append(net, [url |-> buildUrl(config),
                                           options |-> RequestOptions(config)])
                    /\ UNCHANGED <<response, escaped>>

\* a click on Send
ClickSend ==
    /\ ~SendDisabled
    /\ Len(net) < MaxSends
    /\ sendRequest

\* sendRequest called while the URL is empty
CallSendWithoutUrl ==
    /\ config.url = <<>>
    /\ sendRequest

\* await fetch(url, options) returns
FetchResolves(fetchResponse) ==
    /\ pc = "fetch"
    /\ pc' = "text"
    /\ send' = [send EXCEPT !.fetchResponse = Some(fetchResponse),
                            !.responseTime = now - send.startTime,
                            !.responseHeaders = CollectHeaders(fetchResponse.headers)]
    /\ op' = "fetchResolves"
    /\ arg' = None
    /\ UNCHANGED <<config, response, isSending, currentRequestId, now, net, history, escaped,
                   saves, store, stale>>

\* await fetch(url, options) throws
FetchRejects(error) ==
    /\ pc = "fetch"
    /\ Catch(error)
    /\ op' = "fetchRejects"
    /\ arg' = Some(error)
    /\ UNCHANGED <<config, currentRequestId, send, now, net, history, saves, store>>

\* await fetchResponse.text() returns; the response is shown and the history
\* insert is started
TextResolves(responseBody) ==
    LET fetchResponse == send.fetchResponse[1]
        apiResponse == ApiResponse(fetchResponse, send.responseHeaders, responseBody,
                                   send.responseTime)
    IN  /\ pc = "text"
        /\ pc' = "insert"
        /\ send' = [send EXCEPT !.apiResponse = Some(apiResponse)]
        /\ response' = Some(apiResponse)
        /\ history' = Append(history, HistoryRecord(send.config, fetchResponse, apiResponse))
        /\ op' = "textResolves"
        /\ arg' = None
        /\ UNCHANGED <<config, isSending, currentRequestId, now, net, escaped, saves, store,
                       stale>>

\* await fetchResponse.text() throws
TextRejects(error) ==
    /\ pc = "text"
    /\ Catch(error)
    /\ op' = "textRejects"
    /\ arg' = Some(error)
    /\ UNCHANGED <<config, currentRequestId, send, now, net, history, saves, store>>

\* await insert(...) returns, with { error: null } or with { error }
InsertResolves(result) ==
    /\ pc = "insert"
    /\ Finally
    /\ op' = "insertResolves"
    /\ arg' = Some(result)
    /\ UNCHANGED <<config, response, currentRequestId, send, now, net, history, saves, store>>

\* await insert(...) throws
InsertRejects(error) ==
    /\ pc = "insert"
    /\ Catch(error)
    /\ op' = "insertRejects"
    /\ arg' = Some(error)
    /\ UNCHANGED <<config, currentRequestId, send, now, net, history, saves, store>>

----------------------------------------------------------------------------
(* App: saved requests and New Request *)

\* request.headers || {}
OrEmpty(mapping) == IF mapping = None THEN <<>> ELSE mapping[1]

\* RestorePairs numbering the ids from 1
RestorePairsFromOne(prefix, mapping) ==
    [ i \in 1..Len(mapping) |->
        [ id |-> prefix \o "-" \o ToString(i),
          key |-> mapping[i][1],
          value |-> mapping[i][2],
          enabled |-> TRUE ] ]

\* Object.entries(mapping).map(([key, value], index) => ({ id: `${prefix}-${index}`, ... }))
RestorePairs(prefix, mapping) ==
    [ i \in 1..Len(mapping) |->
        [ id |-> prefix \o "-" \o ToString(i - 1),
          key |-> mapping[i][1],
          value |-> mapping[i][2],
          enabled |-> TRUE ] ]

\* the executions of handleSaveRequest in flight, marked as begun before a
\* New Request or a load
Outdated(pending) == [i \in 1..Len(pending) |-> [pending[i] EXCEPT !.outdated = TRUE]]

handleSelectRequest(request) ==
    /\ currentRequestId' = Some(request.id)
    /\ config' = [ method |-> request.method,
                   url |-> request.url,
                   headers |-> RestorePairs("header", OrEmpty(request.headers)),
                   queryParams |-> RestorePairs("param", OrEmpty(request.query_params)),
                   body |-> request.body,
                   auth |-> request.auth ]
    /\ response' = None
    /\ op' = "handleSelectRequest"
    /\ arg' = Some(request)
    /\ saves' = Outdated(saves)
    /\ stale' = (pc # "idle")
    /\ UNCHANGED <<isSending, pc, send, now, net, history, escaped, store>>

handleNewRequest ==
    /\ currentRequestId' = None
    /\ config' = InitialConfig
    /\ response' = None
    /\ op' = "handleNewRequest"
    /\ arg' = None
    /\ saves' = Outdated(saves)
    /\ stale' = (pc # "idle")
    /\ UNCHANGED <<isSending, pc, send, now, net, history, escaped, store>>

----------------------------------------------------------------------------
(* App: saving the request *)

\* requestData of handleSaveRequest
RequestData(cfg, name, collectionId) ==
    [ name |-> name,
      collection_id |-> collectionId,
      method |-> cfg.method,
      url |-> cfg.url,
      headers |-> FlatMapping(cfg.headers),
      query_params |-> FlatMapping(cfg.queryParams),
      body |-> cfg.body,
      auth |-> cfg.auth ]

\* the row of saved_requests that holds requestData under id, as a SavedRequest
StoredRow(id, requestData) ==
    [ id |-> id,
      name |-> requestData.name,
      collection_id |-> requestData.collection_id,
      method |-> requestData.method,
      url |-> requestData.url,
      headers |-> Some(requestData.headers),
      query_params |-> Some(requestData.query_params),
      body |-> requestData.body,
      auth |-> requestData.auth ]

\* the id the store gives to the next inserted row
NewId == "s" \o ToString(Cardinality(DOMAIN store))

\* handleSaveRequest, up to its await: requestData and currentRequestId are
\* those of the render in which Save was pressed
handleSaveRequest(name, collectionId) ==
    /\ saves' = Append(saves, [ requestData |-> RequestData(config, name, collectionId),
                                currentRequestId |-> currentRequestId,
                                outdated |-> FALSE ])
    /\ op' = "handleSaveRequest"
    /\ arg' = None
    /\ UNCHANGED <<config, response, isSending, currentRequestId, pc, send, now, net, history,
                   escaped, store, stale>>

Without(pending, i) == SubSeq(pending, 1, i - 1) \o SubSeq(pending, i + 1, Len(pending))

\* await insert([requestData]).select().single() returns the new row:
\* if (data) setCurrentRequestId(data.id)
SaveInsertResolves(i) ==
    /\ saves[i].currentRequestId = None
    /\ store' = (NewId :> StoredRow(NewId, saves[i].requestData)) @@ store
    /\ currentRequestId' = Some(NewId)
    /\ saves' = Without(saves, i)
    /\ op' = "saveInsertResolves"
    /\ arg' = Some(saves[i])
    /\ UNCHANGED <<config, response, isSending, pc, send, now, net, history, escaped, stale>>

\* the insert returns { data: null }, or throws and leaves handleSaveRequest
SaveInsertRejects(i) ==
    /\ saves[i].currentRequestId = None
    /\ saves' = Without(saves, i)
    /\ op' = "saveInsertRejects"
    /\ arg' = Some(saves[i])
    /\ UNCHANGED <<config, response, isSending, currentRequestId, pc, send, now, net, history,
                   escaped, store, stale>>

\* await update(requestData).eq('id', currentRequestId) returns, the row written
SaveUpdateResolves(i) ==
    /\ saves[i].currentRequestId # None
    /\ LET id == saves[i].currentRequestId[1]
       IN  store' = IF id \in DOMAIN store
                    THEN [store EXCEPT ![id] = StoredRow(id, saves[i].requestData)]
                    ELSE store
    /\ saves' = Without(saves, i)
    /\ op' = "saveUpdateResolves"
    /\ arg' = Some(saves[i])
    /\ UNCHANGED <<config, response, isSending, currentRequestId, pc, send, now, net, history,
                   escaped, stale>>

\* the update returns an error, or throws and leaves handleSaveRequest
SaveUpdateRejects(i) ==
    /\ saves[i].currentRequestId # None
    /\ saves' = Without(saves, i)
    /\ op' = "saveUpdateRejects"
    /\ arg' = Some(saves[i])
    /\ UNCHANGED <<config, response, isSending, currentRequestId, pc, send, now, net, history,
                   escaped, store, stale>>

----------------------------------------------------------------------------
(* RequestBuilder: the edits of the config *)

\* every edit is onChange(next): setConfig(next)
onChange(next, name) ==
    /\ config' = next
    /\ op' = name
    /\ arg' = None
    /\ UNCHANGED <<response, isSending, currentRequestId, pc, send, now, net, history, escaped,
                   saves, store, stale>>

SetMethod(method) == onChange([config EXCEPT !.method = method], "setMethod")

SetUrl(url) == onChange([config EXCEPT !.url = url], "setUrl")

SetBodyType(type) == onChange([config EXCEPT !.body.type = type], "setBodyType")

\* the textarea is rendered only while body.type is not none
SetBodyContent(content) ==
    /\ config.body.type # "none"
    /\ onChange([config EXCEPT !.body.content = content], "setBodyContent")

\* SetAuthType spreading the previous auth object
SetAuthTypeKeepingFields(type) ==
    onChange([config EXCEPT !.auth = Spread(config.auth, "type", type)], "setAuthType")

SetAuthType(type) == onChange([config EXCEPT !.auth = [type |-> type]], "setAuthType")

\* the inputs rendered for each auth type
AuthInputs(type) ==
    CASE type = "bearer" -> {"token"}
      [] type = "apikey" -> {"key", "value"}
      [] type = "basic" -> {"username", "password"}
      [] OTHER -> {}

SetAuthField(field, text) ==
    /\ field \in AuthInputs(config.auth.type)
    /\ onChange([config EXCEPT !.auth = Spread(config.auth, field, text)], "setAuthField")

\* the rows of both editors together
PairCount == Len(config.headers) + Len(config.queryParams)

PairLists == {"headers", "queryParams"}

PairIds(type) == {config[type][i].id : i \in 1..Len(config[type])}

addKeyValuePair(type) ==
    LET newPair == [id |-> ToString(now), key |-> <<>>, value |-> <<>>, enabled |-> TRUE]
    IN  /\ PairCount < MaxPairs
        /\ onChange([config EXCEPT ![type] = Append(config[type], newPair)],
                    "addKeyValuePair")

\* config[type].map(pair => pair.id === id ? { ...pair, [field]: value } : pair)
UpdatedPairs(pairs, id, field, value) ==
    [i \in 1..Len(pairs) |->
        IF pairs[i].id = id THEN [pairs[i] EXCEPT ![field] = value] ELSE pairs[i]]

updateKeyValuePair(type, id, field, value) ==
    onChange([config EXCEPT ![type] = UpdatedPairs(config[type], id, field, value)],
             "updateKeyValuePair")

\* config[type].filter(pair => pair.id !== id)
RECURSIVE WithoutId(_, _)
WithoutId(pairs, id) ==
    IF pairs = <<>> THEN <<>>
    ELSE (IF Head(pairs).id # id THEN <<Head(pairs)>> ELSE <<>>) \o WithoutId(Tail(pairs), id)

removeKeyValuePair(type, id) ==
    onChange([config EXCEPT ![type] = WithoutId(config[type], id)], "removeKeyValuePair")

\* Date.now() moves on
Tick ==
    /\ now < MaxTime
    /\ now' = now + 1
    /\ UNCHANGED <<config, response, isSending, currentRequestId, pc, send, net, history,
                   escaped, op, arg, saves, store, stale>>

----------------------------------------------------------------------------
(* The inputs drawn by the actions *)

Urls == { <<>>, <<"h">> }

Contents == { <<>>, <<"x">> }

Texts == { <<>>, <<"v">> }

FetchResponses ==
    { [status |-> 200, statusText |-> "OK",
       headers |-> << <<ContentType, ApplicationJson>> >>],
      [status |-> 404, statusText |-> "Not Found", headers |-> <<>>] }

ResponseBodies == { <<Lambda, "x">> }

TransportErrors == { [isError |-> TRUE, message |-> <<"x">>] }

InsertErrors == TransportErrors \cup { [isError |-> FALSE, message |-> <<>>] }

\* what the awaited insert returns: { error: null } or { error }
InsertResults == { [error |-> None], [error |-> Some(<<"x">>)] }

Names == { <<"n">> }

CollectionIds == { Some("c1") }

SavedRequests ==
    { [ id |-> "r1", method |-> "POST", url |-> <<"h">>,
        headers |-> Some(<< <<ContentType, <<"v">> >>, <<<<"a">>, <<>> >> >>),
        query_params |-> Some(<< <<<<"a">>, <<"v">> >> >>),
        body |-> [type |-> "json", content |-> <<"x">>],
        auth |-> [type |-> "bearer", token |-> <<"v">>] ],
      [ id |-> "r2", method |-> "GET", url |-> <<>>,
        headers |-> None,
        query_params |-> None,
        body |-> [type |-> "none", content |-> <<>>],
        auth |-> [type |-> "none"] ] }

\* saved_requests as the application finds it
StoredAtStart ==
    [id \in {r.id : r \in SavedRequests} |-> CHOOSE r \in SavedRequests : r.id = id]

----------------------------------------------------------------------------
(* The application: one request edited, sent, answered *)

Init ==
    /\ config = InitialConfig
    /\ response = None
    /\ isSending = FALSE
    /\ currentRequestId = None
    /\ pc = "idle"
    /\ send = NoLocals
    /\ now = 0
    /\ net = <<>>
    /\ history = <<>>
    /\ escaped = FALSE
    /\ op = "init"
    /\ arg = None
    /\ saves = <<>>
    /\ store = StoredAtStart
    /\ stale = FALSE

EditMethod == \E method \in Range(httpMethods) : SetMethod(method)

EditUrl == \E url \in Urls : SetUrl(url)

EditBodyType == \E type \in Range(BodyTypes) : SetBodyType(type)

EditBodyContent == \E content \in Contents : SetBodyContent(content)

FetchReturns == \E fetchResponse \in FetchResponses : FetchResolves(fetchResponse)

FetchFails == \E error \in TransportErrors : FetchRejects(error)

TextReturns == \E responseBody \in ResponseBodies : TextResolves(responseBody)

TextFails == \E error \in TransportErrors : TextRejects(error)

InsertReturns == \E result \in InsertResults : InsertResolves(result)

InsertFails == \E error \in InsertErrors : InsertRejects(error)

SelectRequest == \E request \in SavedRequests : handleSelectRequest(request)

Next ==
    \/ EditUrl
    \/ ClickSend
    \/ CallSendWithoutUrl
    \/ FetchReturns
    \/ FetchFails
    \/ TextReturns
    \/ TextFails
    \/ InsertReturns
    \/ InsertFails
    \/ SelectRequest
    \/ handleNewRequest
    \/ Tick

Spec == Init /\ [][Next]_vars

----------------------------------------------------------------------------
(* The request builder alone: method, URL, body and auth edited *)

EditAuthType == \E type \in Range(AuthTypes) : SetAuthType(type)

EditAuthField ==
    \E field \in {"token", "key", "value", "username", "password"}, text \in Texts :
        SetAuthField(field, text)

NextEdit ==
    \/ EditMethod
    \/ EditUrl
    \/ EditBodyType
    \/ EditBodyContent
    \/ EditAuthType
    \/ EditAuthField
    \/ SelectRequest
    \/ handleNewRequest

SpecEdit == Init /\ [][NextEdit]_vars

----------------------------------------------------------------------------
(* The key-value editors: rows added, edited, removed, restored *)

PairKeys == { <<>>, <<"a">> }

PairValues == { <<>>, <<"v">> }

AddPair == \E type \in PairLists : addKeyValuePair(type)

EditPairKey ==
    \E type \in PairLists : \E id \in PairIds(type), key \in PairKeys :
        updateKeyValuePair(type, id, "key", key)

EditPairValue ==
    \E type \in PairLists : \E id \in PairIds(type), value \in PairValues :
        updateKeyValuePair(type, id, "value", value)

TogglePair ==
    \E type \in PairLists : \E id \in PairIds(type), enabled \in BOOLEAN :
        updateKeyValuePair(type, id, "enabled", enabled)

RemovePair == \E type \in PairLists : \E id \in PairIds(type) : removeKeyValuePair(type, id)

NextPairs ==
    \/ AddPair
    \/ EditPairKey
    \/ EditPairValue
    \/ TogglePair
    \/ RemovePair
    \/ SelectRequest
    \/ handleNewRequest
    \/ Tick

SpecPairs == Init /\ [][NextPairs]_vars

----------------------------------------------------------------------------
(* The application with the transport answering every call *)

SpecLive ==
    /\ Spec
    /\ WF_vars(FetchReturns \/ FetchFails)
    /\ WF_vars(TextReturns \/ TextFails)

----------------------------------------------------------------------------
(* buildUrl, buildHeaders and the request options on configs of every shape: *)
(* the config is drawn, Send is clicked once                                 *)

SeqsUpTo(S, n) == UNION {[1..k -> S] : k \in 0..n}

\* rows as the editor holds them, each with its own id
Rows(fields) ==
    [i \in 1..Len(fields) |->
        [id |-> ToString(i), key |-> fields[i].key, value |-> fields[i].value,
         enabled |-> fields[i].enabled]]

ParamFields ==
    [key : { <<>>, <<"a">>, <<"?">>, <<LoneSurrogate>> }, value : { <<>>, <<"&">> },
     enabled : BOOLEAN]

HeaderFields ==
    [key : { <<>>, ContentType, Authorization }, value : { <<"v">>, <<"x">> },
     enabled : BOOLEAN]

DrawnUrls == { <<"h">>, <<"h", "?", "q">> }

DrawnAuths ==
    { [type |-> "none"],
      [type |-> "bearer"],
      [type |-> "bearer", token |-> <<"v">>],
      [type |-> "apikey", key |-> ContentType, value |-> <<"k">>],
      [type |-> "apikey", key |-> Authorization, value |-> <<>>],
      [type |-> "basic", username |-> <<"u">>],
      [type |-> "basic", username |-> <<"u">>, password |-> <<"p">>],
      [type |-> "basic", username |-> <<"u">>, password |-> <<Lambda>>] }

DrawnBodies == [type : Range(BodyTypes), content : Contents]

\* configs that differ in URL and query parameters
UrlConfigs ==
    { [InitialConfig EXCEPT !.url = url, !.queryParams = Rows(fields)] :
        url \in DrawnUrls, fields \in SeqsUpTo(ParamFields, MaxPairs) }

\* configs that differ in headers, auth and body
HeaderConfigs ==
    { [InitialConfig EXCEPT !.method = "POST", !.url = <<"h">>, !.headers = Rows(fields),
                            !.auth = auth, !.body = body] :
        fields \in SeqsUpTo(HeaderFields, MaxPairs), auth \in DrawnAuths,
        body \in DrawnBodies }

\* configs that differ in method and body
MethodConfigs ==
    { [InitialConfig EXCEPT !.method = method, !.url = <<"h">>, !.body = body] :
        method \in Range(httpMethods), body \in DrawnBodies }

InitAsm ==
    /\ config \in UrlConfigs \cup HeaderConfigs \cup MethodConfigs
    /\ response = None
    /\ isSending = FALSE
    /\ currentRequestId = None
    /\ pc = "idle"
    /\ send = NoLocals
    /\ now = 0
    /\ net = <<>>
    /\ history = <<>>
    /\ escaped = FALSE
    /\ op = "init"
    /\ arg = None
    /\ saves = <<>>
    /\ store = StoredAtStart
    /\ stale = FALSE

NextAsm == ClickSend

SpecAsm == InitAsm /\ [][NextAsm]_vars

----------------------------------------------------------------------------
(* The request saved while it is edited, loaded and reset *)

\* the Save Request button (disabled={!config.url}) and the modal it opens
ClickSave ==
    /\ config.url # <<>>
    /\ Len(saves) + Cardinality(DOMAIN store) < Cardinality(SavedRequests) + MaxSaves
    /\ \E name \in Names, collectionId \in CollectionIds :
          handleSaveRequest(name, collectionId)

SaveInsertReturns == \E i \in 1..Len(saves) : SaveInsertResolves(i)

SaveInsertFails == \E i \in 1..Len(saves) : SaveInsertRejects(i)

SaveUpdateReturns == \E i \in 1..Len(saves) : SaveUpdateResolves(i)

SaveUpdateFails == \E i \in 1..Len(saves) : SaveUpdateRejects(i)

NextSave ==
    \/ EditUrl
    \/ ClickSave
    \/ SaveInsertReturns
    \/ SaveInsertFails
    \/ SaveUpdateReturns
    \/ SaveUpdateFails
    \/ SelectRequest
    \/ handleNewRequest

SpecSave == Init /\ [][NextSave]_vars

----------------------------------------------------------------------------
(* A request sent, saved and loaded back: the config is drawn *)

SavedParamFields ==
    [key : { <<>>, <<"a">>, <<"1">>, <<"2">> }, value : { <<"v">>, <<"x">> },
     enabled : BOOLEAN]

SavedHeaderFields ==
    [key : { <<>>, ContentType, <<"1">> }, value : { <<"v">>, <<"x">> },
     enabled : BOOLEAN]

\* configs to be saved that differ in query parameters
SavedUrlConfigs ==
    { [InitialConfig EXCEPT !.url = <<"h">>, !.queryParams = Rows(fields)] :
        fields \in SeqsUpTo(SavedParamFields, MaxPairs) }

\* configs to be saved that differ in headers, auth and body
SavedHeaderConfigs ==
    { [InitialConfig EXCEPT !.method = "POST", !.url = <<"h">>, !.headers = Rows(fields),
                            !.auth = auth, !.body = body] :
        fields \in SeqsUpTo(SavedHeaderFields, MaxPairs),
        auth \in { [type |-> "none"], [type |-> "apikey", key |-> ContentType, value |-> <<"k">>] },
        body \in { [type |-> "none", content |-> <<>>], [type |-> "json", content |-> <<"x">>] } }

InitRound ==
    /\ config \in SavedUrlConfigs \cup SavedHeaderConfigs
    /\ response = None
    /\ isSending = FALSE
    /\ currentRequestId = None
    /\ pc = "idle"
    /\ send = NoLocals
    /\ now = 0
    /\ net = <<>>
    /\ history = <<>>
    /\ escaped = FALSE
    /\ op = "init"
    /\ arg = None
    /\ saves = <<>>
    /\ store = StoredAtStart
    /\ stale = FALSE

\* a row saved in this run, picked in the Sidebar
LoadSaved ==
    \E id \in DOMAIN store \ DOMAIN StoredAtStart : handleSelectRequest(store[id])

NextRound ==
    \/ ClickSend
    \/ ClickSave
    \/ SaveInsertReturns
    \/ SaveUpdateReturns
    \/ LoadSaved

SpecRound == InitRound /\ [][NextRound]_vars

----------------------------------------------------------------------------
(* Properties of the execution (Spec, SpecLive) *)

NetworkError(message, time) ==
    [ status |-> 0, statusText |-> "Network Error", headers |-> <<>>,
      body |-> message, time |-> time, size |-> 0 ]

\* C1: sendRequest never raises to its caller. Whenever the fetch call or the
\* reading of the response body fails, that step ends the execution with the
\* displayed response {status 0, "Network Error", no headers, body = the
\* error's message, time = clock - start timestamp, size 0}, isSending false
\* again, and no exception has escaped.
ExecuteNeverRaises ==
    [][ (pc \in {"fetch", "text"} /\ op' \in {"fetchRejects", "textRejects"}) =>
            /\ pc' = "idle"
            /\ response' = Some(NetworkError(arg'[1].message, now - send.startTime))
            /\ ~isSending'
            /\ ~escaped' ]_vars

\* the body read failed one tick after the send started
TransportFailureShown ==
    /\ op = "textRejects"
    /\ pc = "idle"
    /\ send.startTime = 0
    /\ response = Some(NetworkError(<<"x">>, 1))
    /\ ~escaped

\* C2: a failure of the history write does not affect the response. When the
\* transport call succeeded and the response built from its reply is
\* displayed, the step in which the history insert settles (returns, returns
\* an error, or throws) leaves that response displayed.
HistoryWriteLeavesResponse ==
    [][ (pc = "insert" /\ pc' = "idle" /\ response = send.apiResponse) =>
            response' = send.apiResponse ]_vars

\* C3: at most one send is in flight. While an execution has not finished,
\* isSending is true and the Send button is disabled; a request is handed to
\* fetch only from a state where no execution is running, isSending is false
\* and config.url is not empty.
OneSendInFlight ==
    /\ [](pc # "idle" => (isSending /\ SendDisabled))
    /\ [][ Len(net') > Len(net) =>
             (pc = "idle" /\ ~isSending /\ config.url # <<>>) ]_vars

\* a second request is in flight, the first one answered
SecondSendInFlight ==
    /\ Len(net) = 2
    /\ pc = "fetch"
    /\ isSending
    /\ config.url # <<>>
    /\ Len(history) = 1

\* C4: history persistence does not block the execution. Every execution
\* that has started eventually finishes with isSending false again, given
\* only that fetch and the body read return or fail.
SendEventuallyFinishes == (pc # "idle") ~> (pc = "idle" /\ ~isSending)

\* C8: sendRequest called while config.url is empty changes nothing: no
\* request is handed to fetch, no history record is written, and isSending,
\* the response, the config and currentRequestId stay as they were.
EmptyUrlSendIsNoOp ==
    [][ (op' = "sendRequest" /\ config.url = <<>>) =>
            UNCHANGED <<config, response, isSending, currentRequestId, pc, net, history>> ]_vars

\* sendRequest ran on an empty URL with an earlier response on display
SendCalledWithoutUrl ==
    /\ op = "sendRequest"
    /\ config.url = <<>>
    /\ response # None
    /\ Len(net) = 1
    /\ ~isSending

\* the pairs that loading the flat mapping must give
RestoredAs(pairs, prefix, mapping) ==
    /\ Len(pairs) = Len(mapping)
    /\ \A i \in 1..Len(mapping) :
         pairs[i] = [id |-> prefix \o ToString(i - 1), key |-> mapping[i][1],
                     value |-> mapping[i][2], enabled |-> TRUE]

\* C10: loading a saved request replaces the config wholesale. Method, url,
\* body and auth are the saved request's; headers and queryParams hold one
\* enabled pair per entry of the saved mappings, in mapping order, with ids
\* header-0, header-1, ... and param-0, param-1, ...; the config has no other
\* field; currentRequestId is the saved request's id and no response is
\* displayed.
LoadReplacesConfig ==
    op = "handleSelectRequest" =>
        LET request == arg[1]
        IN  /\ DOMAIN config = {"method", "url", "headers", "queryParams", "body", "auth"}
            /\ config.method = request.method
            /\ config.url = request.url
            /\ config.body = request.body
            /\ config.auth = request.auth
            /\ RestoredAs(config.headers, "header-",
                          IF request.headers = None THEN <<>> ELSE request.headers[1])
            /\ RestoredAs(config.queryParams, "param-",
                          IF request.query_params = None THEN <<>>
                          ELSE request.query_params[1])
            /\ currentRequestId = Some(request.id)
            /\ response = None

\* the saved request r1 was loaded while a response was on display
SavedRequestLoaded ==
    /\ op = "handleSelectRequest"
    /\ pc = "insert"
    /\ currentRequestId = Some("r1")
    /\ Len(config.headers) = 2
    /\ config.headers[2].id = "header-1"
    /\ config.queryParams[1].id = "param-0"
    /\ response = None

----------------------------------------------------------------------------
(* Properties of the request builder (SpecEdit) *)

\* the fields each auth variant has besides its type
VariantFields(type) ==
    CASE type = "none" -> {}
      [] type = "bearer" -> {"token"}
      [] type = "apikey" -> {"key", "value"}
      [] type = "basic" -> {"username", "password"}

\* C9: the auth config carries only the fields of its active variant, and the
\* auth object left by a switch of the auth type holds the type alone (no
\* token, key, value, username or password), so that switching away and back
\* restores nothing.
AuthHoldsActiveVariantOnly ==
    /\ DOMAIN config.auth \subseteq {"type"} \cup VariantFields(config.auth.type)
    /\ (op = "setAuthType" => DOMAIN config.auth = {"type"})

\* r1 was loaded with its bearer token; after a switch of the type the
\* bearer variant is active and has no token
TokenGoneAfterSwitch ==
    /\ op = "setAuthType"
    /\ currentRequestId = Some("r1")
    /\ config.auth = [type |-> "bearer"]

----------------------------------------------------------------------------
(* Properties of the assembled request (SpecAsm) *)

\* the request handed to fetch by the execution that just started
Dispatched == pc = "fetch"

LastRequest == net[Len(net)]

\* C5: the request handed to fetch carries a body if and only if body.type
\* is not none, body.content is not empty and the method is neither GET nor
\* HEAD; a GET or HEAD request never carries one; an attached body is
\* body.content.
BodyAttachedIff ==
    Dispatched =>
        LET cfg == send.config
            body == LastRequest.options.body
        IN  /\ body # None <=> ( /\ cfg.body.type # "none"
                                 /\ cfg.body.content # <<>>
                                 /\ cfg.method \notin {"GET", "HEAD"} )
            /\ (cfg.method \in {"GET", "HEAD"} => body = None)
            /\ (body # None => body = Some(cfg.body.content))

\* a HEAD request with JSON content went out without a body
HeadSentWithoutBody ==
    /\ Dispatched
    /\ send.config.method = "HEAD"
    /\ send.config.body = [type |-> "json", content |-> <<"x">>]
    /\ LastRequest.options.body = None

\* what each of the three steps writes: sets of <<key, value>>
UserWrites(cfg) ==
    { <<cfg.headers[i].key, cfg.headers[i].value>> :
        i \in { j \in 1..Len(cfg.headers) :
                  /\ cfg.headers[j].enabled
                  /\ cfg.headers[j].key # <<>>
                  /\ \A l \in (j + 1)..Len(cfg.headers) :
                       ~(cfg.headers[l].enabled /\ cfg.headers[l].key = cfg.headers[j].key) } }

AuthWrites(cfg) ==
    LET auth == cfg.auth
        has(f) == f \in DOMAIN auth /\ auth[f] # <<>>
    IN  CASE auth.type = "bearer" /\ has("token") ->
               { <<Authorization, BearerPrefix \o auth.token>> }
          [] auth.type = "apikey" /\ has("key") /\ has("value") ->
               { <<auth.key, auth.value>> }
          [] auth.type = "basic" /\ has("username") /\ has("password") ->
               { <<Authorization, BasicPrefix \o btoa(auth.username \o <<":">> \o auth.password)>> }
          [] OTHER -> {}

BodyWrites(cfg) ==
    IF cfg.body.content = <<>> THEN {}
    ELSE CASE cfg.body.type = "json" -> { <<ContentType, ApplicationJson>> }
           [] cfg.body.type = "xml" -> { <<ContentType, ApplicationXml>> }
           [] cfg.body.type = "form" -> { <<ContentType, ApplicationForm>> }
           [] OTHER -> {}

Written(writes) == {w[1] : w \in writes}

\* the writes that are not overwritten by a later step
Surviving(cfg) ==
    BodyWrites(cfg)
      \cup {w \in AuthWrites(cfg) : w[1] \notin Written(BodyWrites(cfg))}
      \cup {w \in UserWrites(cfg) :
              w[1] \notin Written(BodyWrites(cfg)) \cup Written(AuthWrites(cfg))}

\* C6: the effective headers are the user headers, then auth, then the body
\* content type, each overwriting: every key of the result carries the value
\* written by the last step that sets it (among the enabled user headers with
\* a non-empty key, the last one in sequence order), each key once; with
\* body.type json and non-empty content Content-Type is application/json.
HeadersOverwriteInOrder ==
    Dispatched =>
        LET cfg == send.config
            headers == LastRequest.options.headers
        IN  /\ Range(headers) = Surviving(cfg)
            /\ Cardinality(Written(Range(headers))) = Len(headers)
            /\ (cfg.body.type = "json" /\ cfg.body.content # <<>> =>
                  <<ContentType, ApplicationJson>> \in Range(headers))

\* a user header and an apikey both named Content-Type, and a JSON body
ContentTypeOverwritten ==
    /\ Dispatched
    /\ send.config.auth = [type |-> "apikey", key |-> ContentType, value |-> <<"k">>]
    /\ Len(send.config.headers) = 2
    /\ send.config.headers[1] = [id |-> "1", key |-> ContentType, value |-> <<"v">>, enabled |-> TRUE]
    /\ send.config.headers[2] = [id |-> "2", key |-> Authorization, value |-> <<"x">>, enabled |-> TRUE]
    /\ send.config.body = [type |-> "json", content |-> <<"x">>]
    /\ LastRequest.options.headers =
         << <<ContentType, ApplicationJson>>, <<Authorization, <<"x">> >> >>

\* the indices of the query parameters that are enabled and have a key
KeptParams(cfg) ==
    {i \in 1..Len(cfg.queryParams) :
        cfg.queryParams[i].enabled /\ cfg.queryParams[i].key # <<>>}

\* the n-th of them
NthKept(cfg, n) ==
    CHOOSE i \in KeptParams(cfg) : Cardinality({j \in KeptParams(cfg) : j < i}) = n - 1

ExpectedQuery(cfg) ==
    Concat([n \in 1..Cardinality(KeptParams(cfg)) |->
              (IF n = 1 THEN <<>> ELSE <<"&">>)
                \o encodeURIComponent(cfg.queryParams[NthKept(cfg, n)].key)
                \o <<"=">>
                \o encodeURIComponent(cfg.queryParams[NthKept(cfg, n)].value)])

\* C7: the effective URL is config.url unchanged when no query parameter is
\* both enabled and keyed; otherwise config.url, then '?' if config.url holds
\* no '?' and '&' if it does, then the encoded key=value pairs of exactly the
\* enabled keyed parameters, joined with '&' in their stored order.
EffectiveUrlShape ==
    Dispatched =>
        LET cfg == send.config
            url == LastRequest.url
        IN  IF KeptParams(cfg) = {} THEN url = cfg.url
            ELSE url = cfg.url
                         \o << IF \E i \in 1..Len(cfg.url) : cfg.url[i] = "?"
                               THEN "&" ELSE "?" >>
                         \o ExpectedQuery(cfg)

\* h?q with a disabled parameter and the parameter ?=& gives h?q&%3F=%26
ParamAppendedToQuery ==
    /\ Dispatched
    /\ send.config.url = <<"h", "?", "q">>
    /\ Len(send.config.queryParams) = 2
    /\ ~send.config.queryParams[1].enabled
    /\ LastRequest.url = <<"h", "?", "q", "&", "%", "3", "F", "=", "%", "2", "6">>

\* C12: per execution at most one history record is handed to the store:
\* the history grows only in the step in which the body read returns, by
\* exactly one record, whatever the HTTP status; it does not grow when fetch
\* or the body read fails, when the insert settles, or when sendRequest runs
\* on an empty URL. The record's response status, time, size, headers and
\* body are those of the response built in that step.
OneHistoryRecordPerSuccess ==
    /\ [](Len(history) <= Len(net))
    /\ [][ /\ (history' # history) = (pc = "text" /\ pc' = "insert")
           /\ history' # history =>
                /\ Len(history') = Len(history) + 1
                /\ SubSeq(history', 1, Len(history)) = history
                /\ LET record == history'[Len(history')]
                       built == send'.apiResponse[1]
                   IN  /\ response' = Some(built)
                       /\ record.response_status = built.status
                       /\ record.response_time = built.time
                       /\ record.response_size = built.size
                       /\ record.response_headers = built.headers
                       /\ record.response_body = built.body ]_vars

\* two executions, one answered 404 and recorded, the other failed
NotFoundRecordedFailureNot ==
    /\ Len(net) = 2
    /\ Len(history) = 1
    /\ pc = "idle"
    /\ history[1].response_status = 404
    /\ history[1].response_size = 3
    /\ history[1].response_body = <<Lambda, "x">>

----------------------------------------------------------------------------
(* Properties of the key-value editors (SpecPairs) *)

IdsOf(pairs) == [i \in 1..Len(pairs) |-> pairs[i].id]

\* the rows of either editor that a step changed
ChangedRows ==
    {<<type, i>> \in PairLists \X (1..MaxPairs + 2) :
        /\ i <= Len(config[type])
        /\ i <= Len(config'[type])
        /\ config'[type][i] # config[type][i]}

\* C11: key-value pair ids are unique and stable. No two pairs of the
\* headers, and no two of the queryParams, share an id; an edit of key, value
\* or enabled changes no id and changes one pair only; a removal removes one
\* pair only.
PairIdsUniqueAndStable ==
    /\ [](\A type \in PairLists : \A i, j \in 1..Len(config[type]) :
            i # j => config[type][i].id # config[type][j].id)
    /\ [][ (op' = "updateKeyValuePair" /\ config' # config) =>
             /\ \A type \in PairLists : IdsOf(config'[type]) = IdsOf(config[type])
             /\ Cardinality(ChangedRows) = 1 ]_vars
    /\ [][ (op' = "removeKeyValuePair" /\ config' # config) =>
             Len(config'.headers) + Len(config'.queryParams) = PairCount - 1 ]_vars

----------------------------------------------------------------------------
(* Content-Type and body (SpecAsm) *)

\* buildHeaders took Content-Type from body.type
ContentTypeFromBody(cfg) ==
    cfg.body.type \in {"json", "xml", "form"} /\ cfg.body.content # <<>>

\* C16 as stated: whenever the effective headers take Content-Type from
\* body.type, the request handed to fetch carries body.content as its body.
ContentTypeOnlyWithBody ==
    (Dispatched /\ ContentTypeFromBody(send.config)) =>
        LastRequest.options.body = Some(send.config.body.content)

\* C16: whenever the effective headers take Content-Type from body.type and
\* the method is neither GET nor HEAD, the request handed to fetch carries
\* body.content as its body.
ContentTypeWithBodyUnlessGetOrHead ==
    ( /\ Dispatched
      /\ ContentTypeFromBody(send.config)
      /\ send.config.method \notin {"GET", "HEAD"} ) =>
        /\ LastRequest.options.body = Some(send.config.body.content)
        /\ <<ContentType,
             CASE send.config.body.type = "json" -> ApplicationJson
               [] send.config.body.type = "xml" -> ApplicationXml
               [] send.config.body.type = "form" -> ApplicationForm>>
              \in Range(LastRequest.options.headers)

\* a PUT with XML content went out with its body and its content type
PutSentWithXmlBody ==
    /\ Dispatched
    /\ send.config.method = "PUT"
    /\ send.config.body = [type |-> "xml", content |-> <<"x">>]
    /\ LastRequest.options.body = Some(<<"x">>)
    /\ LastRequest.options.headers = << <<ContentType, ApplicationXml>> >>

----------------------------------------------------------------------------
(* The response and the request it belongs to (Spec) *)

\* C13: the displayed response belongs to the current request. A step that
\* displays a response is never the completion of a send dispatched before
\* the last New Request or load; after such a reset the response stays empty
\* until a send dispatched after it completes.
ResponseOfCurrentRequestOnly ==
    [][ (response' # None /\ response' # response) => ~stale ]_vars

----------------------------------------------------------------------------
(* currentRequestId and the store (SpecSave) *)

\* C14: currentRequestId names the stored record of the request being
\* edited. It becomes a record's id only when that record is loaded, or when
\* the insert of a save begun since the last New Request or load returns; the
\* late return of an insert begun before such a reset never changes it.
CurrentRequestIdOfEditedRequest ==
    [][ (currentRequestId' # None /\ currentRequestId' # currentRequestId) =>
          \/ op' = "handleSelectRequest"
          \/ op' = "saveInsertResolves" /\ ~arg'[1].outdated ]_vars

----------------------------------------------------------------------------
(* Save and load (SpecRound) *)

\* the config that was sent and saved has been loaded back from its row
LoadedBack == op = "handleSelectRequest" /\ pc = "fetch"

\* the parameters that buildUrl appends have pairwise distinct keys, the
\* integer-like keys first and ascending
InPropertyOrder(pairs) ==
    LET kept == FilterEnabled(pairs)
    IN  \A i, j \in 1..Len(kept) :
            i < j =>
              /\ kept[i].key # kept[j].key
              /\ IsArrayIndex(kept[j].key) =>
                    /\ IsArrayIndex(kept[i].key)
                    /\ NumericValue(kept[i].key) < NumericValue(kept[j].key)

\* C15 as stated: the effective URL and the effective headers of a config
\* loaded back from its saved row equal those of the config that was saved.
RoundTripPreservesRequest ==
    LoadedBack =>
        /\ buildUrl(config) = net[1].url
        /\ buildHeaders(config) = net[1].options.headers

\* C15: the effective headers of a config loaded back from its saved row
\* equal those of the config that was saved; the effective URL is equal too
\* when the enabled, keyed query parameters of the saved config have pairwise
\* distinct keys with the integer-like keys first, in ascending order.
RoundTripPreservesOrderedRequest ==
    LoadedBack =>
        /\ buildHeaders(config) = net[1].options.headers
        /\ InPropertyOrder(send.config.queryParams) => buildUrl(config) = net[1].url

\* a config with two parameters was sent, saved and loaded back: its rows
\* carry new ids and its URL is the one that was sent
TwoParamsLoadedBack ==
    /\ LoadedBack
    /\ send.config # config
    /\ net[1].url = <<"h", "?", "1", "=", "v", "&", "a", "=", "v">>
    /\ buildUrl(config) = net[1].url
    /\ currentRequestId # None

====
